---- MODULE Spec2Model ----
(***************************************************************************)
(* A model of parsecodexlog.py: the line scan of parse_codex_log, the      *)
(* record dispatch of _consume_record, _handle_event_msg and               *)
(* _handle_response_item, and the call/output correlation kept in          *)
(* pending_calls; of extract_vm_compile_c_and_upload_flags; and of the     *)
(* commands analyze_fail.py and extract_vm_compile_flags.py, which parse   *)
(* every log of a folder.                                                  *)
(*                                                                         *)
(* JSON values are tagged records [t, v]: t names the Python type the      *)
(* value decodes to and v holds it.  A dict is a TLA+ function from its    *)
(* keys to values, a list is a sequence of values.                         *)
(***************************************************************************)
EXTENDS Integers, Sequences, FiniteSets, TLC

VARIABLES pc, lineno, messages, pending_calls, log, merges, scan

vars == <<pc, lineno, messages, pending_calls, log, merges, scan>>

\* Bounds of the model: the number of physical lines of a log.
MaxLines == 3
MaxKindLines == 3
MaxParLines == 2

\* The logs (one parse_codex_log call each).
Files == {"A", "B"}

(***************************************************************************)
(* Python values                                                           *)
(***************************************************************************)
None == [t |-> "none", v |-> ""]
PyStr(s) == [t |-> "str", v |-> s]
PyInt(n) == [t |-> "int", v |-> n]
PyList(xs) == [t |-> "list", v |-> xs]
PyDict(d) == [t |-> "dict", v |-> d]
EmptyDict == PyDict([k \in {} |-> None])

\* bool(value)
Truthy(x) ==
    CASE x.t = "none" -> FALSE
      [] x.t = "str" -> x.v # ""
      [] x.t = "int" -> x.v # 0
      [] x.t = "list" -> Len(x.v) > 0
      [] x.t = "dict" -> DOMAIN x.v # {}
      [] OTHER -> TRUE

\* hash(value) succeeds: dicts and lists are unhashable (TypeError).
Hashable(x) == x.t \notin {"dict", "list"}

\* value has a .get method: only a dict (AttributeError otherwise).
IsDict(x) == x.t = "dict"

\* d.get(k) of a dict d
Get(d, k) == IF k \in DOMAIN d.v THEN d.v[k] ELSE None

\* x or y
OrElse(x, y) == IF Truthy(x) THEN x ELSE y

\* str(value) / the text an f-string interpolates
StrOf(x) ==
    CASE x.t = "str" -> x.v
      [] x.t = "none" -> "None"
      [] x.t = "int" -> ToString(x.v)
      [] OTHER -> "<" \o x.t \o ">"

\* text.strip() on the strings of the model: those written with
\* surrounding blanks are listed here.
Strip(s) ==
    CASE s = " " -> ""
      [] s = " {\"code\":0} " -> "{\"code\":0}"
      [] OTHER -> s

\* The strings of the model that json.loads decodes, and what it returns.
JsonText ==
    [ s \in {"{\"code\":0}", "{\"a\":1}", "null", "7"} |->
        CASE s = "{\"code\":0}" -> PyDict([code |-> PyInt(0)])
          [] s = "{\"a\":1}" -> PyDict([a |-> PyInt(1)])
          [] s = "null" -> None
          [] s = "7" -> PyInt(7) ]

\* A text of arrays nested a thousand deep.  json.loads raises
\* RecursionError on it, which is no json.JSONDecodeError (as is the
\* ValueError for a number of more than 4300 digits).
DeepJson == "[[[[...1000 deep...]]]]"
JsonRaises == {DeepJson}

\* A value standing for an exception leaving the function.
Raised == [t |-> "raise", v |-> ""]

\* The decoded value, the value itself when json.loads rejects the text,
\* or Raised when json.loads raises another exception: only
\* json.JSONDecodeError is caught.
_maybe_parse_json(value) ==
    IF value.t \in {"dict", "list"} \/ value = None THEN value
    ELSE IF value.t # "str" THEN value
    ELSE LET text == Strip(value.v)
         IN IF text = "" THEN value
            ELSE IF text \in JsonRaises THEN Raised
            ELSE IF text \in DOMAIN JsonText THEN JsonText[text]
            ELSE value

\* json.dumps(value, ensure_ascii=False, indent=2): the rendering of a value,
\* a string that is not the value itself.
_format_json(value) ==
    IF value = None THEN PyStr("null") ELSE [t |-> "json_text", v |-> value]

_coerce_to_text(value) ==
    IF value = None THEN None
    ELSE IF value.t = "str" THEN value
    ELSE PyStr(StrOf(value))

(***************************************************************************)
(* ParsedMessage and the helpers of the handlers                           *)
(***************************************************************************)
\* Faulty variant: the role is stored as the call identifier as well.
ParsedMessageRoleAsCallId(timestamp, type, role, content, call_id, name, arguments, output, metadata, source_line) ==
    [timestamp |-> timestamp, type |-> type, role |-> role,
     content |-> content, call_id |-> role, name |-> name,
     arguments |-> arguments, output |-> output, metadata |-> metadata,
     source_line |-> source_line]

ParsedMessage(timestamp, type, role, content, call_id, name, arguments, output, metadata, source_line) ==
    [timestamp |-> timestamp, type |-> type, role |-> role,
     content |-> content, call_id |-> call_id, name |-> name,
     arguments |-> arguments, output |-> output, metadata |-> metadata,
     source_line |-> source_line]

RECURSIVE JoinText(_, _)
\* sep.join(parts) for a sequence of strings
JoinText(parts, sep) ==
    IF Len(parts) = 0 THEN ""
    ELSE IF Len(parts) = 1 THEN parts[1]
    ELSE parts[1] \o sep \o JoinText(Tail(parts), sep)

RECURSIVE ChunkTexts(_)
\* The loop of _extract_text_chunks over a list: the texts kept, or an
\* exception when an item's "type" is unhashable (the membership test in a
\* set literal).
ChunkTexts(items) ==
    IF Len(items) = 0 THEN [raised |-> FALSE, texts |-> <<>>]
    ELSE LET item == items[1]
             rest == ChunkTexts(Tail(items))
         IN IF ~IsDict(item) THEN rest
            ELSE IF ~Hashable(Get(item, "type")) \/ rest.raised
                 THEN [raised |-> TRUE, texts |-> <<>>]
            ELSE IF Get(item, "type") \in {PyStr("input_text"), PyStr("output_text")}
                    /\ Truthy(Get(item, "text"))
                 THEN [rest EXCEPT !.texts = <<StrOf(Get(item, "text"))>> \o @]
                 ELSE rest

\* _extract_text_chunks(content_items): iterating a string or a dict yields
\* no mapping, iterating a number raises TypeError.
_extract_text_chunks(content_items) ==
    CASE content_items.t = "list" -> ChunkTexts(content_items.v)
      [] content_items.t \in {"str", "dict"} -> [raised |-> FALSE, texts |-> <<>>]
      [] OTHER -> [raised |-> TRUE, texts |-> <<>>]

\* The labels of _format_usage, in the order of the dict literal.
UsageLabels ==
    << <<"input_tokens", "in">>, <<"cached_input_tokens", "cached">>,
       <<"output_tokens", "out">>, <<"reasoning_output_tokens", "reasoning">>,
       <<"total_tokens", "total">> >>

RECURSIVE UsageParts(_, _)
UsageParts(usage, i) ==
    IF i > Len(UsageLabels) THEN <<>>
    ELSE LET value == Get(usage, UsageLabels[i][1])
         IN (IF value # None
             THEN <<UsageLabels[i][2] \o "=" \o StrOf(value)>>
             ELSE <<>>) \o UsageParts(usage, i + 1)

\* Faulty variant: a snapshot without a recognized sub-field is rendered empty.
FormatUsageNoPlaceholder(usage) == JoinText(UsageParts(usage, 1), ", ")

_format_usage(usage) ==
    LET parts == UsageParts(usage, 1)
    IN IF Len(parts) > 0 THEN JoinText(parts, ", ") ELSE "n/a"

\* _summarize_token_count(payload): a string value, or Raised when info or a
\* usage snapshot is a non-empty value that is not a dict.
_summarize_token_count(payload) ==
    LET info == OrElse(Get(payload, "info"), EmptyDict)
    IN IF ~IsDict(info) THEN Raised
       ELSE
       LET total_usage == OrElse(Get(info, "total_token_usage"), EmptyDict)
           last_usage == OrElse(Get(info, "last_token_usage"), EmptyDict)
           ctx_window == Get(info, "model_context_window")
       IN IF (Truthy(total_usage) /\ ~IsDict(total_usage))
             \/ (Truthy(last_usage) /\ ~IsDict(last_usage)) THEN Raised
          ELSE
          LET segments ==
                (IF Truthy(total_usage)
                 THEN <<"total(" \o _format_usage(total_usage) \o ")">>
                 ELSE <<>>)
                \o (IF Truthy(last_usage)
                    THEN <<"last(" \o _format_usage(last_usage) \o ")">>
                    ELSE <<>>)
                \o (IF ctx_window # None
                    THEN <<"context_window=" \o StrOf(ctx_window)>>
                    ELSE <<>>)
          IN IF Len(segments) > 0 THEN PyStr(JoinText(segments, "; "))
             ELSE _format_json(payload)

(***************************************************************************)
(* The dispatch.  A handler's result is its effect on the lists it was     *)
(* handed: the messages it appends, the call identifiers it registers for  *)
(* the appended message, the outputs it assigns to the messages that       *)
(* pending_calls refers to, or the exception it raises.                    *)
(***************************************************************************)
\* Faulty variants of the ignore sets: token_count events dropped as in the other
\* policy; no response sub-kind dropped.
IgnoredTokenCount == {PyStr("token_count")}
IgnoredNothing == {}

IGNORED_RECORD_TYPES == {}
IGNORED_EVENT_SUBTYPES == {}
IGNORED_RESPONSE_SUBTYPES == {PyStr("reasoning")}

Raises == [raised |-> TRUE, append |-> <<>>, register |-> {}, assign |-> {}]
Returns == [raised |-> FALSE, append |-> <<>>, register |-> {}, assign |-> {}]
Appends(msg) == [Returns EXCEPT !.append = <<msg>>]

_handle_event_msg(payload, timestamp, line_no) ==
    IF ~IsDict(payload) THEN Raises
    ELSE
    LET subtype == Get(payload, "type")
    IN IF ~Hashable(subtype) THEN Raises
       ELSE IF subtype \in IGNORED_EVENT_SUBTYPES THEN Returns
       ELSE
       LET role == IF subtype = PyStr("user_message") THEN PyStr("user")
                   ELSE IF subtype = PyStr("agent_message") THEN PyStr("assistant")
                   ELSE None
           summary == _summarize_token_count(payload)
           text == _coerce_to_text(Get(payload, "message"))
           fallback == text = None /\ Truthy(payload)
           content == IF subtype = PyStr("token_count") THEN summary
                      ELSE IF fallback THEN _format_json(payload)
                      ELSE text
           metadata == IF subtype = PyStr("token_count") \/ fallback
                       THEN payload ELSE None
       IN IF content = Raised THEN Raises
          ELSE Appends(ParsedMessage(
                   timestamp,
                   PyStr("event:" \o StrOf(OrElse(subtype, PyStr("unknown")))),
                   role, content, None, None, None, None, metadata, line_no))

\* The key of the lookup pending_calls.get(call_id or "").
LookupKey(call_id) == OrElse(call_id, PyStr(""))

\* Faulty variant: the call is registered whatever its call_id.
RegisterAlways(call_id) == TRUE

\* if call_id: the call is registered as pending.
ShouldRegister(call_id) == Truthy(call_id)

\* pending is the dict handed in: call identifier -> the message it refers to.
_handle_response_item(payload, timestamp, line_no, pending) ==
    IF ~IsDict(payload) THEN Raises
    ELSE
    LET subtype == Get(payload, "type")
        call_id == Get(payload, "call_id")
    IN IF ~Hashable(subtype) THEN Raises
       ELSE IF subtype \in IGNORED_RESPONSE_SUBTYPES THEN Returns
       ELSE IF subtype = PyStr("message") THEN
            LET content == _extract_text_chunks(
                               OrElse(Get(payload, "content"), PyList(<<>>)))
            IN IF content.raised THEN Raises
               ELSE Appends(ParsedMessage(
                        timestamp, PyStr("message"), Get(payload, "role"),
                        IF Len(content.texts) > 0
                        THEN PyStr(JoinText(content.texts, "\n\n")) ELSE None,
                        None, None, None, None, None, line_no))
       ELSE IF subtype = PyStr("function_call") THEN
            LET msg == ParsedMessage(
                           timestamp, PyStr("function_call"), PyStr("assistant"),
                           None, call_id, Get(payload, "name"),
                           _maybe_parse_json(Get(payload, "arguments")),
                           None, None, line_no)
            IN IF msg.arguments = Raised THEN Raises
               ELSE IF ~ShouldRegister(call_id) THEN Appends(msg)
               \* messages.append(msg) has run when pending_calls[call_id]
               \* raises on an unhashable key; the exception leaves the parse.
               ELSE IF ~Hashable(call_id) THEN [Raises EXCEPT !.append = <<msg>>]
               ELSE [Appends(msg) EXCEPT !.register = {call_id}]
       ELSE IF subtype = PyStr("function_call_output") THEN
            LET output_value == _maybe_parse_json(Get(payload, "output"))
                key == LookupKey(call_id)
            IN IF output_value = Raised \/ ~Hashable(key) THEN Raises
               ELSE IF key \in DOMAIN pending
                    THEN [Returns EXCEPT
                              !.assign = {[ref |-> pending[key],
                                           output |-> output_value]}]
               ELSE Appends(ParsedMessage(
                        timestamp, PyStr("function_call"), PyStr("assistant"),
                        None, call_id, None, None, output_value, None, line_no))
       ELSE Appends(ParsedMessage(
                timestamp,
                PyStr("response:" \o StrOf(OrElse(subtype, PyStr("unknown")))),
                Get(payload, "role"), _format_json(payload), None, None, None,
                None, payload, line_no))

\* record is the decoded line; a value that is not a dict has no .get.
_consume_record(record, line_no, pending) ==
    IF ~IsDict(record) THEN Raises
    ELSE
    LET rectype == Get(record, "type")
        timestamp == IF "timestamp" \in DOMAIN record.v
                     THEN PyStr(StrOf(record.v["timestamp"]))
                     ELSE PyStr("unknown")
        payload == OrElse(Get(record, "payload"), EmptyDict)
        Plain(type, role) ==
            Appends(ParsedMessage(timestamp, type, role, _format_json(payload),
                                  None, None, None, None, payload, line_no))
    IN IF ~Hashable(rectype) THEN Raises
       ELSE IF rectype \in IGNORED_RECORD_TYPES THEN Returns
       ELSE IF rectype = PyStr("turn_context")
            THEN Plain(PyStr("turn_context"), PyStr("system"))
       ELSE IF rectype = PyStr("session_meta")
            THEN Plain(PyStr("session_meta"), PyStr("system"))
       ELSE IF rectype = PyStr("event_msg")
            THEN _handle_event_msg(payload, timestamp, line_no)
       ELSE IF rectype = PyStr("response_item")
            THEN _handle_response_item(payload, timestamp, line_no, pending)
       ELSE Plain(OrElse(rectype, PyStr("unknown")), None)

(***************************************************************************)
(* The lines of a log.  form is what the scan loop finds: a line that is   *)
(* blank after strip(), a line json.loads rejects, or the decoded value.   *)
(***************************************************************************)
BlankLine == [form |-> "blank", val |-> None]
MalformedLine == [form |-> "malformed", val |-> None]
Json(value) == [form |-> "json", val |-> value]
ResponseItem(payload) ==
    Json(PyDict([type |-> PyStr("response_item"), payload |-> PyDict(payload)]))
EventMsg(payload) ==
    Json(PyDict([type |-> PyStr("event_msg"), payload |-> PyDict(payload)]))

FunctionCall(call_id, name, arguments) ==
    ResponseItem([type |-> PyStr("function_call"), call_id |-> call_id,
                  name |-> PyStr(name), arguments |-> arguments])
FunctionCallOutput(call_id, output) ==
    ResponseItem([type |-> PyStr("function_call_output"), call_id |-> call_id,
                  output |-> output])

\* Lines that decode to no JSON object.
UndecodedLines ==
    {BlankLine, MalformedLine, Json(PyList(<<PyInt(1), PyInt(2)>>))}

\* Records around the calls: session metadata, a message, a reasoning note
\* that carries the fields of a call.
UnrelatedLines ==
    { Json(PyDict([type |-> PyStr("session_meta"), timestamp |-> PyStr("t1"),
                   payload |-> PyDict([id |-> PyStr("s1")])])),
      ResponseItem([type |-> PyStr("message"), role |-> PyStr("user"),
                    content |-> PyList(<<PyDict([type |-> PyStr("input_text"),
                                                 text |-> PyStr("hello")])>>)]),
      ResponseItem([type |-> PyStr("reasoning"), call_id |-> PyStr("c1"),
                    role |-> PyStr("assistant"), name |-> PyStr("run"),
                    output |-> PyStr("hidden"), content |-> PyStr("hidden")]) }

CallLines ==
    { FunctionCall(PyStr("c1"), "run", PyStr("{\"a\":1}")),
      FunctionCall(PyStr("c1"), "build",
                   PyDict([flags |-> PyList(<<PyStr("-O2")>>)])),
      FunctionCall(PyStr("c2"), "run", None),
      FunctionCall(PyStr(""), "run", None) }

OutputLines ==
    { FunctionCallOutput(PyStr("c1"), PyStr("{\"code\":0}")),
      FunctionCallOutput(PyStr("c1"), PyStr("tool call error: x")),
      FunctionCallOutput(PyStr("c2"), PyDict([code |-> PyInt(1)])),
      FunctionCallOutput(PyStr(""), PyStr("tool call error: y")),
      ResponseItem([type |-> PyStr("function_call_output"),
                    output |-> PyStr("7")]) }

\* The lines of the correlation scenarios.
Lines == UndecodedLines \cup UnrelatedLines \cup CallLines \cup OutputLines

(***************************************************************************)
(* parse_codex_log.  pc[f] is where the call for log f stands: not yet     *)
(* called, in the loop, returned, or left by an exception.  A message is   *)
(* referred to by the list that holds it and its position in that list.    *)
(* log and merges are history: the lines read so far, and the outputs      *)
(* assigned to pending calls.  scan is the command that calls the parser  *)
(* for the files of a folder, with what it has gathered so far.            *)
(***************************************************************************)
\* No command is running: parse_codex_log is called directly.
NoScan ==
    [tool |-> "none", state |-> "idle", files |-> <<>>, at |-> 0,
     default_flags |-> <<>>, errors |-> <<>>, reports |-> <<>>,
     fail_counts |-> <<>>, summary |-> <<>>, total_calls |-> 0,
     explicit_flags_calls |-> 0, all_unique |-> {}, per_file |-> <<>>,
     unique_sorted |-> <<>>]

Init ==
    /\ pc = [f \in Files |-> "idle"]
    /\ lineno = [f \in Files |-> 0]
    /\ messages = [f \in Files |-> <<>>]
    /\ pending_calls = [f \in Files |-> [k \in {} |-> 0]]
    /\ log = [f \in Files |-> <<>>]
    /\ merges = [f \in Files |-> {}]
    /\ scan = NoScan

\* messages = [], pending_calls = {}: both allocated by the call.
Open(f) ==
    /\ pc[f] = "idle"
    /\ pc' = [pc EXCEPT ![f] = "scan"]
    /\ messages' = [messages EXCEPT ![f] = <<>>]
    /\ pending_calls' = [pending_calls EXCEPT ![f] = [k \in {} |-> 0]]
    /\ UNCHANGED <<lineno, log, merges, scan>>

\* Faulty variant: one dict at module level, shared by every call.
PendingCallsOfAll(f) ==
    [k \in UNION {DOMAIN pending_calls[g] : g \in Files} |->
        IF k \in DOMAIN pending_calls[f] THEN pending_calls[f][k]
        ELSE pending_calls[CHOOSE g \in Files : k \in DOMAIN pending_calls[g]][k]]

\* The dict that the call for log f hands to _consume_record.
PendingCallsOf(f) == pending_calls[f]

\* Faulty variant: an identifier that is pending keeps the call it refers to.
PutKeyKeepFirst(pending, key, ref) ==
    [k \in DOMAIN pending \cup {key} |->
        IF k \in DOMAIN pending THEN pending[k] ELSE ref]

\* pending_calls[call_id] = msg
PutKey(pending, key, ref) ==
    [k \in DOMAIN pending \cup {key} |-> IF k = key THEN ref ELSE pending[k]]

\* Faulty variant: the output is not stored on the pending call.
SetOutputSkipped(msgs, ref, output_value) == msgs

\* Faulty variant: the assignment also clears the arguments of the call.
SetOutputClearingArguments(msgs, ref, output_value) ==
    [msgs EXCEPT ![ref.file][ref.idx].output = output_value,
                 ![ref.file][ref.idx].arguments = None]

\* existing.output = output_value, on the message ref refers to
SetOutput(msgs, ref, output_value) ==
    [msgs EXCEPT ![ref.file][ref.idx].output = output_value]

\* Faulty variant: enumerate(handle), numbering from 0.
LineNumberFromZero(f) == lineno[f]

\* enumerate(handle, 1): the number of the line being read.
LineNumber(f) == lineno[f] + 1

\* A line that is blank or not JSON: continue.
SkipLine(f, line, max) ==
    /\ pc[f] = "scan"
    /\ lineno[f] < max
    /\ line.form \in {"blank", "malformed"}
    /\ lineno' = [lineno EXCEPT ![f] = @ + 1]
    /\ log' = [log EXCEPT ![f] = Append(@, line)]
    /\ UNCHANGED <<pc, messages, pending_calls, merges, scan>>

\* A decoded line: _consume_record(record, lineno, messages, pending_calls).
ConsumeRecord(f, line, max) ==
    /\ pc[f] = "scan"
    /\ lineno[f] < max
    /\ line.form = "json"
    /\ LET n == LineNumber(f)
           eff == _consume_record(line.val, n, PendingCallsOf(f))
           appended == [messages EXCEPT ![f] = @ \o eff.append]
           here == [file |-> f, idx |-> Len(appended[f])]
       IN /\ lineno' = [lineno EXCEPT ![f] = n]
          /\ log' = [log EXCEPT ![f] = Append(@, line)]
          /\ pc' = [pc EXCEPT ![f] = IF eff.raised THEN "raised" ELSE "scan"]
          /\ messages' =
                IF eff.assign = {} THEN appended
                ELSE LET a == CHOOSE a \in eff.assign : TRUE
                     IN SetOutput(appended, a.ref, a.output)
          /\ pending_calls' =
                IF eff.register = {} THEN pending_calls
                ELSE [pending_calls EXCEPT ![f] =
                        PutKey(@, CHOOSE k \in eff.register : TRUE, here)]
          /\ merges' = [merges EXCEPT ![f] =
                          @ \cup {[line |-> n, ref |-> a.ref, output |-> a.output] :
                                    a \in eff.assign}]
          /\ UNCHANGED scan

\* End of file: return messages.
Return(f) ==
    /\ pc[f] = "scan"
    /\ pc' = [pc EXCEPT ![f] = "done"]
    /\ UNCHANGED <<lineno, messages, pending_calls, log, merges, scan>>

Next ==
    \/ Open("A")
    \/ \E line \in Lines : SkipLine("A", line, MaxLines)
    \/ \E line \in Lines : ConsumeRecord("A", line, MaxLines)
    \/ Return("A")

Spec == Init /\ [][Next]_vars

(***************************************************************************)
(* Every kind, sub-kind and field shape the dispatch tells apart.          *)
(***************************************************************************)
KindLines ==
    UndecodedLines \cup UnrelatedLines \cup
    { \* top-level kinds
      Json(PyDict([type |-> PyStr("session_meta"), payload |-> PyStr("x")])),
      Json(PyDict([type |-> PyStr("turn_context"), payload |-> None])),
      Json(PyDict([type |-> PyStr("compacted"), timestamp |-> PyStr("t1")])),
      Json(EmptyDict),
      Json(PyDict([type |-> PyInt(5), payload |-> PyList(<<>>)])),
      Json(PyDict([type |-> PyList(<<PyStr("a")>>)])),
      \* events
      EventMsg([type |-> PyStr("user_message"), message |-> PyStr("hi")]),
      EventMsg([type |-> PyStr("agent_message"), message |-> PyInt(7)]),
      EventMsg([type |-> PyStr("task_started")]),
      Json(PyDict([type |-> PyStr("event_msg")])),
      EventMsg([type |-> PyStr("token_count"),
                info |-> PyDict([total_token_usage |->
                                   PyDict([total_tokens |-> PyInt(500)])])]),
      EventMsg([type |-> PyStr("token_count"), info |-> PyStr("n/a")]),
      EventMsg([type |-> PyList(<<PyStr("z")>>)]),
      Json(PyDict([type |-> PyStr("event_msg"), payload |-> PyStr("x")])),
      \* response items
      Json(PyDict([type |-> PyStr("response_item")])),
      ResponseItem([type |-> PyStr("custom_tool_call"), role |-> PyStr("tool"),
                    call_id |-> PyStr("c1"), name |-> PyStr("run"),
                    arguments |-> PyStr("{\"a\":1}"), output |-> PyStr("o")]),
      ResponseItem([type |-> PyStr("message"), content |-> PyInt(5)]),
      ResponseItem([type |-> PyDict([a |-> PyInt(1)])]),
      Json(PyDict([type |-> PyStr("response_item"),
                   payload |-> PyList(<<PyInt(1)>>)])),
      \* calls and outputs
      FunctionCall(PyStr("c1"), "run", PyStr("{\"a\":1}")),
      FunctionCall(PyInt(5), "run", None),
      FunctionCall(PyList(<<PyStr("x")>>), "run", None),
      ResponseItem([type |-> PyStr("function_call"), name |-> PyStr("run")]),
      FunctionCallOutput(PyStr("c1"), PyStr(" {\"code\":0} ")),
      FunctionCallOutput(PyInt(5), PyStr(" ")),
      FunctionCallOutput(PyList(<<PyStr("x")>>), PyStr("o")),
      FunctionCallOutput(PyList(<<>>), PyStr("null")) }

NextKinds ==
    \/ Open("A")
    \/ \E line \in KindLines : SkipLine("A", line, MaxKindLines)
    \/ \E line \in KindLines : ConsumeRecord("A", line, MaxKindLines)
    \/ Return("A")

SpecKinds == Init /\ [][NextKinds]_vars

(***************************************************************************)
(* Two logs parsed by two calls whose steps interleave.                    *)
(***************************************************************************)
ParLines ==
    { BlankLine,
      FunctionCall(PyStr("c1"), "run", PyStr("{\"a\":1}")),
      FunctionCallOutput(PyStr("c1"), PyStr("{\"code\":0}")),
      FunctionCallOutput(PyStr("c1"), PyStr("tool call error: x")),
      ResponseItem([type |-> PyStr("message"), role |-> PyStr("user"),
                    content |-> PyStr("hello")]) }

NextPar ==
    \E f \in Files :
        \/ Open(f)
        \/ \E line \in ParLines : SkipLine(f, line, MaxParLines)
        \/ \E line \in ParLines : ConsumeRecord(f, line, MaxParLines)
        \/ Return(f)

SpecPar == Init /\ [][NextPar]_vars

(***************************************************************************)
(* parse_codex_log on a given sequence of lines, by itself: the lists it   *)
(* allocates, the loop, and what it leaves.  A message is referred to by   *)
(* its position in the list of this call.                                  *)
(***************************************************************************)
ParseStart ==
    [status |-> "scan", lineno |-> 0, messages |-> <<>>,
     pending_calls |-> [k \in {} |-> 0]]

ParseLine(st, line) ==
    IF st.status # "scan" THEN st
    ELSE IF line.form \in {"blank", "malformed"}
    THEN [st EXCEPT !.lineno = @ + 1]
    ELSE LET n == st.lineno + 1
             eff == _consume_record(line.val, n, st.pending_calls)
             appended == st.messages \o eff.append
             assigned ==
                 IF eff.assign = {} THEN appended
                 ELSE LET a == CHOOSE a \in eff.assign : TRUE
                      IN [appended EXCEPT ![a.ref].output = a.output]
         IN [status |-> IF eff.raised THEN "raised" ELSE "scan",
             lineno |-> n,
             messages |-> assigned,
             pending_calls |->
                 IF eff.register = {} THEN st.pending_calls
                 ELSE PutKey(st.pending_calls,
                             CHOOSE k \in eff.register : TRUE, Len(appended))]

RECURSIVE ParseLines(_, _)
\* The state of the loop after the lines, read in order from st.
ParseLines(st, lines) ==
    IF Len(lines) = 0 THEN st
    ELSE ParseLines(ParseLine(st, lines[1]), Tail(lines))

(***************************************************************************)
(* What the properties say about the lines of a log                        *)
(***************************************************************************)
\* The line decodes to a JSON object.
IsObjectLine(line) == line.form = "json" /\ line.val.t = "dict"

PayloadOf(line) ==
    LET given == IF "payload" \in DOMAIN line.val.v
                 THEN line.val.v["payload"] ELSE None
    IN IF given.t = "dict" THEN given.v ELSE [k \in {} |-> None]

Field(line, key) ==
    IF key \in DOMAIN PayloadOf(line) THEN PayloadOf(line)[key] ELSE None

IsResponseItem(line, subkind) ==
    /\ IsObjectLine(line)
    /\ "type" \in DOMAIN line.val.v
    /\ line.val.v["type"] = PyStr("response_item")
    /\ Field(line, "type") = PyStr(subkind)

IsCallLine(line) == IsResponseItem(line, "function_call")
IsOutputLine(line) == IsResponseItem(line, "function_call_output")
IsReasoningLine(line) == IsResponseItem(line, "reasoning")

\* A call identifier that is a non-empty string.
IsIdentifier(call_id) == call_id.t = "str" /\ call_id.v # ""

\* The line is a call or an output that carries the identifier.
Carries(line, call_id) ==
    (IsCallLine(line) \/ IsOutputLine(line)) /\ Field(line, "call_id") = call_id

\* The positions of the messages made from line k of log f.
MadeFrom(f, k) == {m \in 1..Len(messages[f]) : messages[f][m].source_line = k}

\* The output lines of log f that were merged into a pending call.
MergedLines(f) == {a.line : a \in merges[f]}

\* The parse of log f has not been left by an exception.
Alive(f) == pc[f] \in {"scan", "done"}

\* The normalized value of a raw field, as the spec's Value Normalizer gives
\* it for the values of the model.
Normalized(value) ==
    CASE value = PyStr("{\"a\":1}") -> PyDict([a |-> PyInt(1)])
      [] value = PyStr("{\"code\":0}") -> PyDict([code |-> PyInt(0)])
      [] value = PyStr(" {\"code\":0} ") -> PyDict([code |-> PyInt(0)])
      [] value = PyStr("7") -> PyInt(7)
      [] value = PyStr("null") -> None
      [] OTHER -> value

C2_SecondOutputIsStandalone ==
    \A f \in Files : Alive(f) =>
      \A j, k \in 1..Len(log[f]) :
        ( /\ j < k
          /\ IsOutputLine(log[f][j]) /\ IsOutputLine(log[f][k])
          /\ j \in MergedLines(f)
          /\ Field(log[f][k], "call_id") = Field(log[f][j], "call_id")
          /\ \A c \in (j + 1)..(k - 1) :
                ~(IsCallLine(log[f][c])
                  /\ Field(log[f][c], "call_id") = Field(log[f][j], "call_id")) )
        => /\ k \notin MergedLines(f)
           /\ \E m \in MadeFrom(f, k) :
                /\ messages[f][m].name = None
                /\ messages[f][m].output = Normalized(Field(log[f][k], "output"))

(***************************************************************************)
(* C3: no function_call_output is lost: for every decoded output record    *)
(* the sequence holds a Message with the record's call_id whose output is  *)
(* the record's normalized output.                                         *)
(***************************************************************************)
C3_NoOutputLost ==
    \A f \in Files : Alive(f) =>
      \A k \in 1..Len(log[f]) :
        IsOutputLine(log[f][k]) =>
          \E m \in 1..Len(messages[f]) :
            /\ messages[f][m].call_id = Field(log[f][k], "call_id")
            /\ messages[f][m].output = Normalized(Field(log[f][k], "output"))

(***************************************************************************)
(* C4: a function_call_output whose call_id has no pending call (the       *)
(* call_id is absent or empty, or no function_call with that call_id was   *)
(* read before it) appends exactly one Message: type "function_call", role *)
(* "assistant", the record's call_id, the normalized output, and no name,  *)
(* arguments or content.                                                   *)
(***************************************************************************)
NoPendingCallFor(f, k) ==
    LET call_id == Field(log[f][k], "call_id")
    IN \/ call_id = None
       \/ call_id = PyStr("")
       \/ \A i \in 1..(k - 1) :
             ~(IsCallLine(log[f][i]) /\ Field(log[f][i], "call_id") = call_id)

C4_UnmatchedOutputIsStandalone ==
    \A f \in Files : Alive(f) =>
      \A k \in 1..Len(log[f]) :
        (IsOutputLine(log[f][k]) /\ NoPendingCallFor(f, k))
        => /\ Cardinality(MadeFrom(f, k)) = 1
           /\ k \notin MergedLines(f)
           /\ \A m \in MadeFrom(f, k) :
                /\ messages[f][m].type = PyStr("function_call")
                /\ messages[f][m].role = PyStr("assistant")
                /\ messages[f][m].call_id = Field(log[f][k], "call_id")
                /\ messages[f][m].output
                     = Normalized(Field(log[f][k], "output"))
                /\ messages[f][m].name = None
                /\ messages[f][m].arguments = None
                /\ messages[f][m].content = None

\* After a call with an empty call_id and a call "c1": an output with an
\* empty call_id and an output for "c2", never called, are both standalone.
C4_Witness ==
    /\ pc["A"] = "scan"
    /\ Len(log["A"]) = 3
    /\ IsCallLine(log["A"][1]) /\ Field(log["A"][1], "call_id") = PyStr("")
    /\ IsOutputLine(log["A"][2]) /\ Field(log["A"][2], "call_id") = PyStr("")
    /\ IsOutputLine(log["A"][3]) /\ Field(log["A"][3], "call_id") = PyStr("c2")
    /\ Len(messages["A"]) = 3
    /\ messages["A"][2].output = PyStr("tool call error: y")
    /\ messages["A"][3].name = None

(***************************************************************************)
(* C5: count conservation.  At every point of a parse that has not been    *)
(* left by an exception, the number of Messages plus the number of outputs *)
(* merged into a pending call is the number of lines read that decoded and *)
(* that the ignore policy keeps.  The policy of the source drops no kind   *)
(* and no event sub-kind, and drops the reasoning response sub-kind.       *)
(***************************************************************************)
KeptLines(f) ==
    {k \in 1..Len(log[f]) :
        log[f][k].form = "json" /\ ~IsReasoningLine(log[f][k])}

C5_CountConservation ==
    \A f \in Files : Alive(f) =>
      Len(messages[f]) + Cardinality(MergedLines(f)) = Cardinality(KeptLines(f))

\* A call, a reasoning record the policy drops, and the output merged into
\* the call: two kept lines, one Message, one merge.
C5_Witness ==
    /\ pc["A"] = "done"
    /\ Len(log["A"]) = 3
    /\ IsCallLine(log["A"][1])
    /\ IsReasoningLine(log["A"][2])
    /\ MergedLines("A") = {3}
    /\ Len(messages["A"]) = 1

(***************************************************************************)
(* C6: the sequence is in line order.  Each Message's source_line is the   *)
(* 1-based number, blank and undecodable lines counted, of the decoded     *)
(* line that made it; source_line increases strictly along the sequence; a *)
(* merged output makes no entry and goes into the Message made at the line *)
(* of an earlier call with its call_id.                                    *)
(***************************************************************************)
C6_SequenceInLineOrder ==
    \A f \in Files :
      /\ \A m \in 1..Len(messages[f]) :
            LET k == messages[f][m].source_line
            IN /\ k \in 1..Len(log[f])
               /\ IsObjectLine(log[f][k])
               /\ k \notin MergedLines(f)
               /\ (messages[f][m].type = PyStr("function_call"))
                    = (IsCallLine(log[f][k]) \/ IsOutputLine(log[f][k]))
      /\ \A m, e \in 1..Len(messages[f]) :
            m < e => messages[f][m].source_line < messages[f][e].source_line
      /\ \A a \in merges[f] :
            /\ MadeFrom(f, a.line) = {}
            /\ a.ref.file = f
            /\ a.ref.idx \in 1..Len(messages[f])
            /\ LET k == messages[f][a.ref.idx].source_line
               IN /\ k < a.line
                  /\ IsCallLine(log[f][k])
                  /\ Field(log[f][k], "call_id") = Field(log[f][a.line], "call_id")

\* A blank line, a call on line 2, and its output merged on line 3.
C6_Witness ==
    /\ Len(log["A"]) = 3
    /\ log["A"][1].form = "blank"
    /\ IsCallLine(log["A"][2])
    /\ MergedLines("A") = {3}
    /\ Len(messages["A"]) = 1
    /\ messages["A"][1].source_line = 2

(***************************************************************************)
(* C7: a line that does not decode to a JSON object (blank, malformed, or  *)
(* a JSON value that is not an object) is skipped with no effect and never *)
(* aborts the scan: the parse stands as the parse of the same lines with   *)
(* those lines removed stands, with the same Messages but for source_line  *)
(* and the same pending calls.                                             *)
(***************************************************************************)
WithoutSourceLine(msgs) ==
    [m \in 1..Len(msgs) |-> [msgs[m] EXCEPT !.source_line = 0]]

C7_UndecodedLinesHaveNoEffect ==
    \A f \in Files :
      LET alone == ParseLines(ParseStart, SelectSeq(log[f], IsObjectLine))
      IN /\ (pc[f] = "raised") = (alone.status = "raised")
         /\ WithoutSourceLine(messages[f]) = WithoutSourceLine(alone.messages)
         /\ DOMAIN pending_calls[f] = DOMAIN alone.pending_calls
         /\ \A key \in DOMAIN pending_calls[f] :
               pending_calls[f][key].idx = alone.pending_calls[key]

(***************************************************************************)
(* C8: structural surprises are never fatal and never drop a record: for   *)
(* every line that decodes to an object, whatever the shape of its fields, *)
(* the dispatch does not raise, and the record makes exactly one Message   *)
(* or is merged into a pending call, unless the ignore policy drops it.    *)
(***************************************************************************)
C8_SurprisesNeverFatal ==
    \A f \in Files :
      \A k \in 1..Len(log[f]) :
        IsObjectLine(log[f][k]) =>
          /\ pc[f] # "raised"
          /\ \/ IsReasoningLine(log[f][k])
             \/ Cardinality(MadeFrom(f, k)) = 1 /\ k \notin MergedLines(f)
             \/ MadeFrom(f, k) = {} /\ k \in MergedLines(f)

(***************************************************************************)
(* C9: a response_item whose sub-kind is reasoning makes no Message and    *)
(* has no side effect, whatever its payload holds: the step that reads it  *)
(* leaves the Messages, the pending calls and the merged outputs as they   *)
(* were, and the scan goes on.                                             *)
(***************************************************************************)
C9_ReasoningHasNoEffect ==
    [][\A f \in Files :
         ( /\ Len(log'[f]) = Len(log[f]) + 1
           /\ IsReasoningLine(log'[f][Len(log'[f])]) )
         => /\ messages' = messages
            /\ pending_calls' = pending_calls
            /\ merges' = merges
            /\ pc' = pc]_vars

\* A reasoning record that carries call_id "c1" and an output was read after
\* the call "c1": the call is still the only Message and has no output.
C9_Witness ==
    /\ pc["A"] = "scan"
    /\ Len(log["A"]) = 2
    /\ IsCallLine(log["A"][1]) /\ Field(log["A"][1], "call_id") = PyStr("c1")
    /\ IsReasoningLine(log["A"][2])
    /\ Field(log["A"][2], "call_id") = PyStr("c1")
    /\ Len(messages["A"]) = 1
    /\ messages["A"][1].output = None

(***************************************************************************)
(* C10: parses are independent.  Whatever the other call has done, and     *)
(* however the steps of the two interleave, the parse of each log stands   *)
(* as the parse of its lines alone stands: the same Messages, the same     *)
(* pending calls, each referring to a Message of its own list.             *)
(***************************************************************************)
C10_ParsesAreIndependent ==
    \A f \in Files :
      LET alone == ParseLines(ParseStart, log[f])
      IN /\ messages[f] = alone.messages
         /\ (pc[f] = "raised") = (alone.status = "raised")
         /\ DOMAIN pending_calls[f] = DOMAIN alone.pending_calls
         /\ \A key \in DOMAIN pending_calls[f] :
               pending_calls[f][key]
                 = [file |-> f, idx |-> alone.pending_calls[key]]

\* Log A ends with the call "c1" pending; log B holds an output for "c1",
\* which stays in B as a standalone Message.
C10_Witness ==
    /\ pc["A"] = "done" /\ pc["B"] = "done"
    /\ Len(log["A"]) = 1 /\ IsCallLine(log["A"][1])
    /\ Len(log["B"]) = 1 /\ IsOutputLine(log["B"][1])
    /\ Field(log["B"][1], "call_id") = Field(log["A"][1], "call_id")
    /\ messages["A"][1].output = None
    /\ Len(messages["B"]) = 1
    /\ messages["B"][1].name = None

(***************************************************************************)
(* extract_vm_compile_c_and_upload_flags and the two commands that call    *)
(* parse_codex_log for every log of a folder: analyze_fail.py and          *)
(* extract_vm_compile_flags.py.                                            *)
(***************************************************************************)
\* Python orders strings by code point; the strings the commands sort, in
\* that order ('-' < '<' < 'b' < 'm' < 'r', 'O' < 'g' < 's').
StrOrder ==
    <<"-O2", "-g", "-static", "<unknown>", "build",
      "mcp__kernelmcp__vm_compile_c_and_upload", "run">>

StrLess(a, b) ==
    LET Rank(s) == CHOOSE i \in 1..Len(StrOrder) : StrOrder[i] = s
    IN Rank(a) < Rank(b)

RECURSIVE ListLess(_, _)
\* xs < ys for two lists of strings
ListLess(xs, ys) ==
    IF Len(xs) = 0 THEN Len(ys) > 0
    ELSE IF Len(ys) = 0 THEN FALSE
    ELSE IF xs[1] = ys[1] THEN ListLess(Tail(xs), Tail(ys))
    ELSE StrLess(xs[1], ys[1])

\* key=lambda xs: (len(xs), xs), compared
FlagKeyLess(xs, ys) ==
    Len(xs) < Len(ys) \/ (Len(xs) = Len(ys) /\ ListLess(xs, ys))

RECURSIVE SortFlagLists(_)
\* out.sort(key=...): a stable sort, an item goes behind the items whose key
\* is not greater than its own.
SortFlagLists(out) ==
    IF Len(out) = 0 THEN <<>>
    ELSE LET sorted == SortFlagLists(SubSeq(out, 1, Len(out) - 1))
             x == out[Len(out)]
             k == Cardinality({i \in 1..Len(sorted) : ~FlagKeyLess(x, sorted[i])})
         IN SubSeq(sorted, 1, k) \o <<x>> \o SubSeq(sorted, k + 1, Len(sorted))

\* The tool whose calls are selected.
CompileTool == "mcp__kernelmcp__vm_compile_c_and_upload"

\* The default of the commands: --default "-static", and the default of
\* the function when it is handed none.
DefaultFlags == <<"-static">>

\* The three tests that select a message of the loop.
IsCompileCall(msg) ==
    /\ msg.type = PyStr("function_call")
    /\ Truthy(msg.name)
    /\ msg.name = PyStr(CompileTool)

\* isinstance(raw_flags, list) and all(isinstance(x, str) for x in raw_flags)
IsStrList(x) == x.t = "list" /\ \A i \in 1..Len(x.v) : x.v[i].t = "str"

\* [x for x in raw_flags if x], as a list of strings
NonEmptyItems(raw_flags) ==
    LET kept == SelectSeq(raw_flags, LAMBDA x : Truthy(x))
    IN [i \in 1..Len(kept) |-> kept[i].v]

\* Faulty variant: the default replaces the flags of every call.
FlagsOfDefaultOnly(msg, default_flags) == default_flags

\* The flags one selected message contributes.
FlagsOf(msg, default_flags) ==
    LET args == msg.arguments
        raw_flags == IF IsDict(args) THEN Get(args, "flags") ELSE None
        flags == IF IsDict(args) /\ IsStrList(raw_flags)
                 THEN NonEmptyItems(raw_flags.v) ELSE <<>>
    IN IF Len(flags) = 0 THEN default_flags ELSE flags

RECURSIVE FlagsLoop(_, _, _)
\* The loop over the messages: out collects the flag lists not seen yet
\* (seen holds the lists of out as tuples).
FlagsLoop(msgs, default_flags, out) ==
    IF Len(msgs) = 0 THEN out
    ELSE LET msg == Head(msgs)
             flags == FlagsOf(msg, default_flags)
         IN IF ~IsCompileCall(msg)
            THEN FlagsLoop(Tail(msgs), default_flags, out)
            ELSE IF \E i \in 1..Len(out) : out[i] = flags
            THEN FlagsLoop(Tail(msgs), default_flags, out)
            ELSE FlagsLoop(Tail(msgs), default_flags, Append(out, flags))

extract_vm_compile_c_and_upload_flags(msgs, default_flags) ==
    SortFlagLists(FlagsLoop(msgs, default_flags, <<>>))

RECURSIVE SortedFlagSet(_)
\* sorted(all_unique, key=lambda xs: (len(xs), list(xs))): the keys of
\* distinct tuples are distinct, the order of the set does not show.
SortedFlagSet(all_unique) ==
    IF all_unique = {} THEN <<>>
    ELSE LET first == CHOOSE x \in all_unique :
                          \A y \in all_unique \ {x} : FlagKeyLess(x, y)
         IN <<first>> \o SortedFlagSet(all_unique \ {first})

\* output.lstrip() on the strings of the model: the one written with a
\* leading blank is listed here.
LStrip(s) ==
    CASE s = " tool call error: z" -> "tool call error: z"
      [] s = " " -> ""
      [] s = " {\"code\":0} " -> "{\"code\":0} "
      [] OTHER -> s

\* The strings of the model for which startswith("tool call error:") holds.
ErrorTexts ==
    {"tool call error:", "tool call error: x", "tool call error: y",
     "tool call error: z"}

\* Faulty variant: every call that has an output is a failure.
IsFailedCallAnyOutput(message) ==
    message.type = PyStr("function_call") /\ message.output # None

\* The test of the loop of _failed_calls.
IsFailedCall(message) ==
    /\ message.type = PyStr("function_call")
    /\ message.output.t = "str"
    /\ LStrip(message.output.v) \in ErrorTexts

_failed_calls(msgs) == SelectSeq(msgs, IsFailedCall)

\* name = message.name or "<unknown>", for the names of the model: strings
\* and None.
ReportName(message) == StrOf(OrElse(message.name, PyStr("<unknown>")))

\* fail_counts[name] += 1 of a Counter
Count(fail_counts, name) ==
    [k \in DOMAIN fail_counts \cup {name} |->
        (IF k \in DOMAIN fail_counts THEN fail_counts[k] ELSE 0)
        + (IF k = name THEN 1 ELSE 0)]

RECURSIVE CountAll(_, _)
CountAll(fail_counts, names) ==
    IF Len(names) = 0 THEN fail_counts
    ELSE CountAll(Count(fail_counts, Head(names)), Tail(names))

\* Faulty variant: the summary is ordered by name alone.
SummaryLessByName(fail_counts, a, b) == StrLess(a, b)

\* key=lambda item: (-item[1], item[0]), compared for two names
SummaryLess(fail_counts, a, b) ==
    \/ fail_counts[a] > fail_counts[b]
    \/ fail_counts[a] = fail_counts[b] /\ StrLess(a, b)

RECURSIVE SortedCounts(_, _)
\* sorted(fail_counts.items(), key=...) over the names left
SortedCounts(fail_counts, names) ==
    IF names = {} THEN <<>>
    ELSE LET first == CHOOSE a \in names :
                          \A b \in names \ {a} : SummaryLess(fail_counts, a, b)
         IN <<[name |-> first, count |-> fail_counts[first]]>>
            \o SortedCounts(fail_counts, names \ {first})

(***************************************************************************)
(* The commands.  scan.files is what _iter_jsonl_files yields, scan.at the *)
(* position of the loop over it; the parse of the file at that position    *)
(* is the parse_codex_log of above.                                        *)
(***************************************************************************)
Tools == {"analyze_fail", "extract_vm_compile_flags"}

\* The loop of main is at file f.
Scanning(f) ==
    /\ scan.state = "running"
    /\ scan.at <= Len(scan.files)
    /\ scan.files[scan.at] = f

\* main() up to its loop: the counters and collections are empty.
ScanStart(tool, files, default_flags) ==
    /\ scan.state = "idle"
    /\ \A f \in Files : pc[f] = "idle"
    /\ scan' = [NoScan EXCEPT !.tool = tool, !.state = "running",
                              !.files = files, !.at = 1,
                              !.default_flags = default_flags]
    /\ UNCHANGED <<pc, lineno, messages, pending_calls, log, merges>>

\* path.open(...) raises: the path is a directory, or cannot be read.
OpenFails(f) ==
    /\ pc[f] = "idle"
    /\ pc' = [pc EXCEPT ![f] = "raised"]
    /\ UNCHANGED <<lineno, messages, pending_calls, log, merges, scan>>

\* analyze_fail: one turn of the loop after parse_codex_log has returned or
\* raised.  The except clause reports the file and goes on.
AnalyzeFile(f) ==
    /\ scan.tool = "analyze_fail"
    /\ Scanning(f)
    /\ pc[f] \in {"done", "raised"}
    /\ LET failures == _failed_calls(messages[f])
           names == [i \in 1..Len(failures) |-> ReportName(failures[i])]
       IN scan' =
            IF pc[f] = "raised"
            THEN [scan EXCEPT !.at = @ + 1, !.errors = Append(@, f)]
            ELSE IF Len(failures) = 0 THEN [scan EXCEPT !.at = @ + 1]
            ELSE [scan EXCEPT !.at = @ + 1,
                              !.reports = Append(@, [file |-> f, names |-> names]),
                              !.fail_counts = CountAll(@, names)]
    /\ UNCHANGED <<pc, lineno, messages, pending_calls, log, merges>>

\* analyze_fail: after the loop, the summary (nothing to list when no file
\* had a failure).
AnalyzeEnd ==
    /\ scan.tool = "analyze_fail"
    /\ scan.state = "running"
    /\ scan.at > Len(scan.files)
    /\ scan' = [scan EXCEPT !.state = "done",
                            !.summary = SortedCounts(scan.fail_counts,
                                                     DOMAIN scan.fail_counts)]
    /\ UNCHANGED <<pc, lineno, messages, pending_calls, log, merges>>

\* extract_vm_compile_flags: one turn of the loop after parse_codex_log has
\* returned.
ExtractFile(f) ==
    /\ scan.tool = "extract_vm_compile_flags"
    /\ Scanning(f)
    /\ pc[f] = "done"
    /\ LET msgs == messages[f]
           calls == {i \in 1..Len(msgs) :
                        /\ msgs[i].type = PyStr("function_call")
                        /\ msgs[i].name = PyStr(CompileTool)}
           explicit == {i \in calls :
                           /\ IsDict(msgs[i].arguments)
                           /\ Get(msgs[i].arguments, "flags").t = "list"}
           flags_sets == extract_vm_compile_c_and_upload_flags(
                             msgs, scan.default_flags)
       IN scan' = [scan EXCEPT
                     !.at = @ + 1,
                     !.total_calls = @ + Cardinality(calls),
                     !.explicit_flags_calls = @ + Cardinality(explicit),
                     !.all_unique = @ \cup {flags_sets[i] : i \in 1..Len(flags_sets)},
                     !.per_file = Append(@, [file |-> f,
                                             unique_flag_sets |-> flags_sets])]
    /\ UNCHANGED <<pc, lineno, messages, pending_calls, log, merges>>

\* extract_vm_compile_flags: parse_codex_log has raised; nothing in main
\* catches the exception, which ends the command.
ExtractAborts(f) ==
    /\ scan.tool = "extract_vm_compile_flags"
    /\ Scanning(f)
    /\ pc[f] = "raised"
    /\ scan' = [scan EXCEPT !.state = "aborted"]
    /\ UNCHANGED <<pc, lineno, messages, pending_calls, log, merges>>

\* extract_vm_compile_flags: after the loop, the overall list.
ExtractEnd ==
    /\ scan.tool = "extract_vm_compile_flags"
    /\ scan.state = "running"
    /\ scan.at > Len(scan.files)
    /\ scan' = [scan EXCEPT !.state = "done",
                            !.unique_sorted = SortedFlagSet(scan.all_unique)]
    /\ UNCHANGED <<pc, lineno, messages, pending_calls, log, merges>>

(***************************************************************************)
(* A folder of two logs scanned by either command, with a log that cannot  *)
(* be opened or a record that makes the parse raise.                       *)
(***************************************************************************)
MaxScanLines == 2

ScanLines ==
    { BlankLine,
      Json(PyList(<<PyInt(1), PyInt(2)>>)),
      FunctionCall(None, CompileTool,
                   PyDict([flags |-> PyList(<<PyStr("-O2")>>)])),
      FunctionCallOutput(None, PyStr("tool call error: y")) }

NextScan ==
    \/ \E tool \in Tools : ScanStart(tool, <<"A", "B">>, DefaultFlags)
    \/ \E f \in Files : Scanning(f) /\ Open(f)
    \/ \E f \in Files : Scanning(f) /\ OpenFails(f)
    \/ \E f \in Files, line \in ScanLines :
          Scanning(f) /\ SkipLine(f, line, MaxScanLines)
    \/ \E f \in Files, line \in ScanLines :
          Scanning(f) /\ ConsumeRecord(f, line, MaxScanLines)
    \/ \E f \in Files : Scanning(f) /\ Return(f)
    \/ \E f \in Files : AnalyzeFile(f)
    \/ AnalyzeEnd
    \/ \E f \in Files : ExtractFile(f)
    \/ \E f \in Files : ExtractAborts(f)
    \/ ExtractEnd

SpecScan == Init /\ [][NextScan]_vars

\* C11: in a scan of several files by either command, a file whose parse
\* fails never ends the scan: when the command has ended, it has ended
\* normally and every file of the folder has been handed to the parser.
\* The failure scanner does so; the flag extractor does not, its loop has
\* no handler around parse_codex_log.
C11_FailingFileNeverAbortsScan ==
    scan.state \in {"done", "aborted"} =>
        /\ scan.state = "done"
        /\ \A i \in 1..Len(scan.files) : pc[scan.files[i]] # "idle"

(***************************************************************************)
(* The flag extractor command over one log of compile calls.               *)
(***************************************************************************)
MaxFlagLines == 3

\* A call of the compile tool with the given "flags" argument.
CompileCall(raw_flags) ==
    FunctionCall(None, CompileTool, PyDict([flags |-> raw_flags]))

FlagLines ==
    { BlankLine,
      FunctionCall(None, CompileTool, None),
      FunctionCall(None, CompileTool, PyStr("{\"a\":1}")),
      CompileCall(PyList(<<PyStr("-O2"), PyStr(""), PyStr("-g")>>)),
      CompileCall(PyList(<<PyStr("-g"), PyStr("-O2")>>)),
      CompileCall(PyList(<<PyStr("-static")>>)),
      CompileCall(PyList(<<PyStr("-g")>>)),
      CompileCall(PyList(<<PyStr("")>>)),
      CompileCall(PyList(<<PyInt(1), PyStr("-g")>>)),
      CompileCall(PyStr("-O2")),
      FunctionCall(None, "run", PyDict([flags |-> PyList(<<PyStr("-O2")>>)])),
      FunctionCallOutput(None, PyStr("tool call error: y")) }

\* --default "-static", "-g" or "": the default flags handed to the function.
FlagDefaults == {DefaultFlags, <<"-g">>, <<>>}

NextFlags ==
    \/ \E default_flags \in FlagDefaults :
          ScanStart("extract_vm_compile_flags", <<"A">>, default_flags)
    \/ Scanning("A") /\ Open("A")
    \/ \E line \in FlagLines : Scanning("A") /\ SkipLine("A", line, MaxFlagLines)
    \/ \E line \in FlagLines :
          Scanning("A") /\ ConsumeRecord("A", line, MaxFlagLines)
    \/ Scanning("A") /\ Return("A")
    \/ ExtractFile("A")
    \/ ExtractEnd

SpecFlags == Init /\ [][NextFlags]_vars

\* What the claim says a call's arguments contribute, for the arguments of
\* FlagLines: the listed strings without the empty ones, and the default
\* for every other value (no arguments, no flags, a list left empty, a list
\* holding a number, a string).
Contribution(arguments, default_flags) ==
    CASE arguments = PyDict([flags |-> PyList(<<PyStr("-O2"), PyStr(""), PyStr("-g")>>)])
           -> <<"-O2", "-g">>
      [] arguments = PyDict([flags |-> PyList(<<PyStr("-g"), PyStr("-O2")>>)])
           -> <<"-g", "-O2">>
      [] arguments = PyDict([flags |-> PyList(<<PyStr("-static")>>)])
           -> <<"-static">>
      [] arguments = PyDict([flags |-> PyList(<<PyStr("-g")>>)])
           -> <<"-g">>
      [] OTHER -> default_flags

\* The flag sequences of the model by (length, lexicographic).
FlagListOrder ==
    << <<>>, <<"-O2">>, <<"-g">>, <<"-static">>,
       <<"-O2", "-g">>, <<"-g", "-O2">> >>

FlagListRank(xs) ==
    CHOOSE i \in 1..Len(FlagListOrder) : FlagListOrder[i] = xs

Reversed(s) == [i \in 1..Len(s) |-> s[Len(s) + 1 - i]]

\* The messages of a sequence that are calls of the compile tool.
CompileCalls(msgs) ==
    {i \in 1..Len(msgs) : /\ msgs[i].type = PyStr("function_call")
                          /\ msgs[i].name = PyStr(CompileTool)}

\* C12: the flag sequences extracted from a parsed log are exactly the
\* contributions of its compile calls (the flags without empty items, or
\* the default when the flags are absent, empty once the empty items are
\* removed, or not a sequence of strings); no sequence occurs twice, the
\* result is sorted by (length, lexicographic), it is the same for the
\* messages in reverse order, and calls without flags under the default
\* ["-static"] give [["-static"]].
C12_FlagExtraction ==
    \A n \in 1..Len(scan.per_file) :
        LET msgs == messages[scan.per_file[n].file]
            default_flags == scan.default_flags
            result == scan.per_file[n].unique_flag_sets
        IN /\ {result[i] : i \in 1..Len(result)}
                = {Contribution(msgs[i].arguments, default_flags) :
                       i \in CompileCalls(msgs)}
           /\ \A i, j \in 1..Len(result) :
                  i < j => /\ result[i] # result[j]
                           /\ FlagListRank(result[i]) < FlagListRank(result[j])
           /\ extract_vm_compile_c_and_upload_flags(Reversed(msgs), default_flags)
                = result
           /\ ( /\ default_flags = <<"-static">>
                /\ CompileCalls(msgs) # {}
                /\ \A i \in CompileCalls(msgs) :
                       ~IsDict(msgs[i].arguments)
                       \/ "flags" \notin DOMAIN msgs[i].arguments.v )
              => result = << <<"-static">> >>

\* Three compile calls (flags with an empty item, no arguments, and the
\* same flags in the other order) have given three sequences, the default
\* first.
C12_Witness ==
    /\ Len(scan.per_file) = 1
    /\ scan.default_flags = <<"-static">>
    /\ scan.per_file[1].unique_flag_sets
         = << <<"-static">>, <<"-O2", "-g">>, <<"-g", "-O2">> >>

(***************************************************************************)
(* The failure scanner command over a folder of two logs of calls and      *)
(* outputs.                                                                *)
(***************************************************************************)
\* The lines of the first log, and of each later log.
MaxFailLines == 3
MaxMoreLines == 2

FailLines ==
    { FunctionCall(PyStr("c1"), "build", None),
      FunctionCall(PyStr("c1"), "run", None),
      FunctionCallOutput(PyStr("c1"), PyStr(" tool call error: z")),
      FunctionCallOutput(PyStr("c1"), PyStr("ok: tool call error: x")),
      FunctionCallOutput(None, PyStr("tool call error: y")) }

MaxLinesOf(f) == IF f = "A" THEN MaxFailLines ELSE MaxMoreLines

NextFail ==
    \/ ScanStart("analyze_fail", <<"A", "B">>, DefaultFlags)
    \/ \E f \in Files : Scanning(f) /\ Open(f)
    \/ \E f \in Files, line \in FailLines :
          Scanning(f) /\ ConsumeRecord(f, line, MaxLinesOf(f))
    \/ \E f \in Files : Scanning(f) /\ Return(f)
    \/ \E f \in Files : AnalyzeFile(f)
    \/ AnalyzeEnd

SpecFail == Init /\ [][NextFail]_vars

\* The outputs of the model that are a string beginning, after its leading
\* whitespace, with "tool call error:".
FailureOutputs ==
    {PyStr(" tool call error: z"), PyStr("tool call error: y"),
     PyStr("tool call error: x")}

IsReported(message) ==
    message.type = PyStr("function_call") /\ message.output \in FailureOutputs

\* The names reported for log f: those of its failed calls in sequence
\* order, the placeholder for a message without name.
FailedNames(f) ==
    LET failed == SelectSeq(messages[f], IsReported)
    IN [i \in 1..Len(failed) |->
           IF failed[i].name = None THEN "<unknown>" ELSE failed[i].name.v]

\* The logs the loop has dealt with that parsed and have a failed call.
FilesWithFailures ==
    SelectSeq(SubSeq(scan.files, 1, scan.at - 1),
              LAMBDA f : pc[f] = "done" /\ Len(FailedNames(f)) > 0)

\* How often a name has been reported.
TimesReported(name) ==
    LET Times(names) == Cardinality({i \in 1..Len(names) : names[i] = name})
        RECURSIVE Sum(_)
        Sum(n) == IF n = 0 THEN 0
                  ELSE Times(scan.reports[n].names) + Sum(n - 1)
    IN Sum(Len(scan.reports))

\* The names of the model in ascending order.
NameOrder == <<"<unknown>", "build", "run">>

NameRank(name) == CHOOSE i \in 1..Len(NameOrder) : NameOrder[i] = name

\* C13: the failure scanner reports, for each log and in the order of its
\* messages, exactly the function_call messages whose output is a string
\* that begins with "tool call error:" after its leading whitespace, under
\* the message's name or "<unknown>"; the summary lists every reported name
\* once with the number of its reports, by count descending, then name
\* ascending.
C13_FailureReports ==
    scan.tool = "analyze_fail" =>
        /\ scan.reports =
             [n \in 1..Len(FilesWithFailures) |->
                 [file |-> FilesWithFailures[n],
                  names |-> FailedNames(FilesWithFailures[n])]]
        /\ scan.state = "done" =>
             /\ {scan.summary[i].name : i \in 1..Len(scan.summary)}
                  = UNION {{FailedNames(FilesWithFailures[n])[i] :
                               i \in 1..Len(FailedNames(FilesWithFailures[n]))} :
                           n \in 1..Len(FilesWithFailures)}
             /\ \A i \in 1..Len(scan.summary) :
                    scan.summary[i].count = TimesReported(scan.summary[i].name)
             /\ \A i, j \in 1..Len(scan.summary) :
                    i < j =>
                      \/ scan.summary[i].count > scan.summary[j].count
                      \/ /\ scan.summary[i].count = scan.summary[j].count
                         /\ NameRank(scan.summary[i].name)
                              < NameRank(scan.summary[j].name)

\* Both logs have failed calls; build failed twice (once with leading
\* whitespace in the output), a standalone output once, and the summary
\* lists build before the placeholder.
C13_Witness ==
    /\ scan.state = "done"
    /\ Len(scan.reports) = 2
    /\ scan.reports[1].names = <<"build", "<unknown>">>
    /\ scan.summary = <<[name |-> "build", count |-> 2],
                        [name |-> "<unknown>", count |-> 1]>>

\* C14: every call identifier held in pending_calls refers to a
\* function_call message into which no output has been merged yet, and the
\* map is no larger than the number of such messages: resolving a call
\* removes its identifier.  The code never removes an entry.
C14_PendingMapHoldsUnresolvedCalls ==
    \A f \in Files :
        LET Unresolved(ref) ==
                /\ messages[ref.file][ref.idx].type = PyStr("function_call")
                /\ ~ \E m \in merges[f] : m.ref = ref
        IN /\ \A k \in DOMAIN pending_calls[f] : Unresolved(pending_calls[f][k])
           /\ Cardinality(DOMAIN pending_calls[f])
                <= Cardinality({i \in 1..Len(messages[f]) :
                                   /\ IsCallLine(log[f][messages[f][i].source_line])
                                   /\ Unresolved([file |-> f, idx |-> i])})

\* The fields of a message other than output.
FrameOf(msg) ==
    <<msg.timestamp, msg.type, msg.role, msg.content, msg.call_id, msg.name,
      msg.arguments, msg.metadata, msg.source_line>>

\* The positions in log f of the messages an output is merged into by the
\* step.
MergedInto(f) == {a.ref.idx : a \in merges'[f] \ merges[f]}

\* C15: a step that merges an output into a pending call leaves the length
\* and the order of the sequence, every other message, and every field of
\* the matched message but output as they were; no step of a parse removes
\* or reorders a message, and a step that merges nothing leaves every
\* message it found unchanged.
C15_MergeChangesOnlyOutput ==
    [][\A f \in Files :
         /\ Len(messages'[f]) >= Len(messages[f])
         /\ \A i \in 1..Len(messages[f]) :
                /\ FrameOf(messages'[f][i]) = FrameOf(messages[f][i])
                /\ i \notin MergedInto(f) => messages'[f][i] = messages[f][i]
         /\ MergedInto(f) # {} => Len(messages'[f]) = Len(messages[f])]_vars

\* An output has been merged into a call that has arguments, with another
\* message in the sequence.
C15_Witness ==
    /\ Len(messages["A"]) >= 2
    /\ \E a \in merges["A"] :
           /\ messages["A"][a.ref.idx].output = a.output
           /\ messages["A"][a.ref.idx].arguments # None

\* C16: a message whose type is not "function_call" has no call_id, name,
\* arguments or output, and a message that has a name or arguments was
\* made from a function_call record.
C16_CorrelationFieldsConfined ==
    \A f \in Files : \A i \in 1..Len(messages[f]) :
        LET msg == messages[f][i]
        IN /\ msg.type # PyStr("function_call") =>
                /\ msg.call_id = None
                /\ msg.name = None
                /\ msg.arguments = None
                /\ msg.output = None
           /\ (msg.name # None \/ msg.arguments # None) =>
                IsCallLine(log[f][msg.source_line])

\* A record of another kind that carries call_id, name, arguments and
\* output has made a message, and so has a call with name and arguments.
C16_Witness ==
    \E i, j \in 1..Len(messages["A"]) :
        /\ messages["A"][i].type = PyStr("response:custom_tool_call")
        /\ Field(log["A"][messages["A"][i].source_line], "call_id") = PyStr("c1")
        /\ Field(log["A"][messages["A"][i].source_line], "name") = PyStr("run")
        /\ messages["A"][j].type = PyStr("function_call")
        /\ messages["A"][j].name = PyStr("run")
        /\ messages["A"][j].arguments # None

\* The line is an event_msg record.
IsEventLine(line) ==
    /\ IsObjectLine(line)
    /\ "type" \in DOMAIN line.val.v
    /\ line.val.v["type"] = PyStr("event_msg")

\* C17: the message made from an event_msg record that is no token_count
\* and whose payload has no "message" field (a missing or empty payload
\* included) has the formatted JSON of the payload as content, the payload
\* as metadata, and the type "event:<subtype>" ("unknown" for a missing
\* sub-kind); its content is never absent.  For a missing or empty payload
\* the code leaves content and metadata absent.
C17_EventWithoutMessageFallsBack ==
    \A f \in Files : \A i \in 1..Len(messages[f]) :
        LET msg == messages[f][i]
            line == log[f][msg.source_line]
            subtype == Field(line, "type")
        IN ( /\ IsEventLine(line)
             /\ subtype # PyStr("token_count")
             /\ "message" \notin DOMAIN PayloadOf(line) )
           => /\ msg.content = [t |-> "json_text", v |-> PyDict(PayloadOf(line))]
              /\ msg.content # None
              /\ msg.metadata = PyDict(PayloadOf(line))
              /\ msg.type = PyStr("event:" \o (IF subtype = None THEN "unknown"
                                               ELSE subtype.v))

(***************************************************************************)
(* Calls and outputs whose arguments and output run over the raw values    *)
(* the Value Normalizer distinguishes.                                     *)
(***************************************************************************)
MaxValueLines == 2

RawValues ==
    { None, PyDict([code |-> PyInt(1)]), PyList(<<PyInt(1), PyInt(2)>>),
      PyInt(5), PyStr(""), PyStr(" "), PyStr("{\"a\":1}"),
      PyStr(" {\"code\":0} "), PyStr("7"), PyStr("null"),
      PyStr("tool call error: x"), PyStr(DeepJson) }

ValueLines ==
    {FunctionCall(PyStr("c1"), "run", value) : value \in RawValues}
    \cup {FunctionCallOutput(PyStr("c1"), value) : value \in RawValues}
    \cup {BlankLine}

NextValues ==
    \/ Open("A")
    \/ \E line \in ValueLines : SkipLine("A", line, MaxValueLines)
    \/ \E line \in ValueLines : ConsumeRecord("A", line, MaxValueLines)
    \/ Return("A")

SpecValues == Init /\ [][NextValues]_vars

\* C18: the arguments of every call and the output of every output record
\* are stored as the Value Normalizer gives them (a mapping, a sequence or
\* an absent value as it is, a string of valid JSON decoded, any other
\* string unchanged), and the normalizer never fails.  It fails on a text
\* on which json.loads raises another exception than JSONDecodeError.
C18_NormalizerAppliedToBoth ==
    \A f \in Files :
        /\ pc[f] # "raised"
        /\ \A k \in 1..Len(log[f]) :
               LET line == log[f][k]
               IN /\ IsCallLine(line) =>
                       \E i \in MadeFrom(f, k) :
                           messages[f][i].arguments
                             = Normalized(Field(line, "arguments"))
                  /\ IsOutputLine(line) =>
                       \/ \E i \in MadeFrom(f, k) :
                              messages[f][i].output
                                = Normalized(Field(line, "output"))
                       \/ \E a \in merges[f] :
                              /\ a.line = k
                              /\ a.output = Normalized(Field(line, "output"))

(***************************************************************************)
(* Logs of token_count events.                                             *)
(***************************************************************************)
MaxTokenLines == 2

\* payload["info"] of the token_count events of the model.
InfoTotalOnly ==
    PyDict([total_token_usage |-> PyDict([total_tokens |-> PyInt(500)])])
InfoAll ==
    PyDict([total_token_usage |->
                PyDict([total_tokens |-> PyInt(13), input_tokens |-> PyInt(3),
                        cached_input_tokens |-> PyInt(1),
                        reasoning_output_tokens |-> PyInt(4),
                        output_tokens |-> PyInt(5)]),
            last_token_usage |->
                PyDict([output_tokens |-> PyInt(2), input_tokens |-> PyInt(1)]),
            model_context_window |-> PyInt(1000)])
InfoLastAndWindow ==
    PyDict([last_token_usage |->
                PyDict([total_tokens |-> PyInt(7), requests |-> PyInt(9)]),
            model_context_window |-> PyInt(0)])
InfoUnrecognized ==
    PyDict([total_token_usage |-> PyDict([requests |-> PyInt(1)])])
InfoEmptySnapshot ==
    PyDict([total_token_usage |-> EmptyDict,
            model_context_window |-> PyInt(128)])
InfoNoUsage == PyDict([rate_limits |-> None])

TokenInfos ==
    {InfoTotalOnly, InfoAll, InfoLastAndWindow, InfoUnrecognized,
     InfoEmptySnapshot, InfoNoUsage}

TokenCount(info) == EventMsg([type |-> PyStr("token_count"), info |-> info])

TokenLines ==
    {TokenCount(info) : info \in TokenInfos}
    \cup { EventMsg([type |-> PyStr("token_count")]),
           EventMsg([type |-> PyStr("user_message"), message |-> PyStr("hi")]),
           BlankLine }

NextTokens ==
    \/ Open("A")
    \/ \E line \in TokenLines : SkipLine("A", line, MaxTokenLines)
    \/ \E line \in TokenLines : ConsumeRecord("A", line, MaxTokenLines)
    \/ Return("A")

SpecTokens == Init /\ [][NextTokens]_vars

\* The content the claim gives for the infos of the model: a segment for
\* every snapshot that is present, listing the recognized sub-fields it
\* has.  "" stands for the formatted JSON of the payload.
ClaimedSummary(info) ==
    CASE info = InfoTotalOnly -> "total(total=500)"
      [] info = InfoAll ->
           "total(in=3, cached=1, out=5, reasoning=4, total=13); last(in=1, out=2); context_window=1000"
      [] info = InfoLastAndWindow -> "last(total=7); context_window=0"
      [] info = InfoUnrecognized -> "total()"
      [] info = InfoEmptySnapshot -> "total(); context_window=128"
      [] OTHER -> ""

\* The same with the two amendments: a snapshot that has none of the
\* recognized sub-fields is rendered as n/a, and an empty snapshot gives no
\* segment.
AmendedSummary(info) ==
    CASE info = InfoUnrecognized -> "total(n/a)"
      [] info = InfoEmptySnapshot -> "context_window=128"
      [] OTHER -> ClaimedSummary(info)

\* The content of every message made from a token_count event is what
\* Summary gives for its info.
TokenContentIs(Summary(_)) ==
    \A f \in Files : \A i \in 1..Len(messages[f]) :
        LET msg == messages[f][i]
            line == log[f][msg.source_line]
            summary == Summary(Field(line, "info"))
        IN (IsEventLine(line) /\ Field(line, "type") = PyStr("token_count")) =>
              msg.content = IF summary = ""
                            THEN [t |-> "json_text", v |-> PyDict(PayloadOf(line))]
                            ELSE PyStr(summary)

\* C19 as stated: the content of a token_count event is built from the
\* segments total(...), last(...), context_window=<value> of the fields
\* that are present, in this order and joined by "; ", each snapshot
\* listing the recognized sub-fields it has; with no usage field it is the
\* formatted JSON of the payload.
C19_TokenCountAsStated == TokenContentIs(ClaimedSummary)

\* C19, amended: as stated, but a snapshot gives a segment only when it is
\* present and not empty, and a snapshot with none of the recognized
\* sub-fields is rendered as "total(n/a)" or "last(n/a)".
C19_TokenCountSummary == TokenContentIs(AmendedSummary)

\* A snapshot with only total_tokens = 500 has given "total(total=500)",
\* and an event with both snapshots and the context window all three
\* segments.
C19_Witness ==
    /\ Len(messages["A"]) = 2
    /\ messages["A"][1].content = PyStr("total(total=500)")
    /\ Field(log["A"][messages["A"][2].source_line], "info") = InfoAll
    /\ messages["A"][2].type = PyStr("event:token_count")

\* Line k of log f is a record of the given kind that carries call_id.
CallAt(f, k, call_id) ==
    IsCallLine(log[f][k]) /\ Field(log[f][k], "call_id") = call_id
OutputAt(f, k, call_id) ==
    IsOutputLine(log[f][k]) /\ Field(log[f][k], "call_id") = call_id

\* C20: when two function_call records carry the same non-empty call_id
\* with no output for it between them, both messages are in the sequence,
\* every later output with that call_id is merged into the call seen last
\* before it, and the earlier call keeps its output absent.
C20_OutputGoesToLatestCall ==
    \A f \in Files : \A j, k \in 1..Len(log[f]) :
        LET call_id == Field(log[f][j], "call_id")
        IN ( /\ j < k
             /\ IsObjectLine(log[f][j]) /\ IsObjectLine(log[f][k])
             /\ IsIdentifier(call_id)
             /\ CallAt(f, j, call_id) /\ CallAt(f, k, call_id)
             /\ \A o \in (j + 1)..(k - 1) :
                    ~(IsObjectLine(log[f][o]) /\ OutputAt(f, o, call_id)) )
           => /\ Cardinality(MadeFrom(f, j)) = 1
              /\ Cardinality(MadeFrom(f, k)) = 1
              /\ \A i \in MadeFrom(f, j) : messages[f][i].output = None
              /\ \A o \in (k + 1)..Len(log[f]) :
                     (IsObjectLine(log[f][o]) /\ OutputAt(f, o, call_id)) =>
                        LET last == CHOOSE c \in k..(o - 1) :
                                        /\ IsObjectLine(log[f][c])
                                        /\ CallAt(f, c, call_id)
                                        /\ \A d \in (c + 1)..(o - 1) :
                                               ~(IsObjectLine(log[f][d])
                                                 /\ CallAt(f, d, call_id))
                        IN /\ MadeFrom(f, o) = {}
                           /\ \E a \in merges[f] :
                                  a.line = o /\ a.ref.idx \in MadeFrom(f, last)

\* Two calls with the call_id "c1", then an output for it: the second call
\* has the output, the first has none.
C20_Witness ==
    /\ Len(log["A"]) = 3
    /\ Len(messages["A"]) = 2
    /\ messages["A"][1].call_id = PyStr("c1")
    /\ messages["A"][2].call_id = PyStr("c1")
    /\ messages["A"][1].source_line = 1
    /\ messages["A"][2].source_line = 2
    /\ messages["A"][1].output = None
    /\ messages["A"][2].output = PyStr("tool call error: x")

====
